---------------------------- MODULE Spec2Model ----------------------------
(***************************************************************************)
(* A model of eRPC's HugeAlloc (src/src/util/huge_alloc.cc): a size-classed *)
(* buddy allocator over hugepage-backed System V shared-memory regions.     *)
(*                                                                         *)
(* Sizes are scaled: one unit stands for 1 MiB of the build's 64 B .. 8 MiB *)
(* ladder cut down to three classes (2, 4, 8), with a hugepage of 2 units   *)
(* and a largest class of 8 units, which keeps the build's ratio            *)
(* kMaxClassSize = 4 * kHugepageSize.                                       *)
(*                                                                         *)
(* The operating system and the registration callback are the environment:  *)
(* every call of alloc_raw consumes outcomes (errno of shmget, the random   *)
(* key, failures of shmat/mbind, the callback's result) from a sequence the *)
(* calling action draws nondeterministically.  The values of the SHM key    *)
(* and of the lkey are arbitrary in the program; the model names segments   *)
(* and registrations in the order of their creation (1, 2, ...), which is   *)
(* every behaviour up to a renaming of keys.                                *)
(***************************************************************************)
EXTENDS Integers, Sequences, FiniteSets, TLC

(***************************************************************************)
(* Program constants (huge_alloc.h / common.h), scaled.                     *)
(***************************************************************************)
kMinClassSize == 2
kNumClasses == 3
kMaxClassSize == 8
kHugepageSize == 2

(***************************************************************************)
(* Bounds of the model.                                                     *)
(***************************************************************************)
\* Units of hugepage memory the operating system can hand out in total.
OsCapacity == 24
\* Configured initial sizes are 0..MaxInitialSize.
MaxInitialSize == 10
\* Callers hold at most MaxHeld buffers at a time.
MaxHeld == 2
\* create_cache is called with num_buffers in 0..MaxCacheBuffers.
MaxCacheBuffers == 2
\* Outcomes of the environment one call can consume (shmget attempts).
MaxEnv == 2
\* Calls made on one allocator, the constructor and the destructor included.
MaxCalls == 4

\* Widths of slow_rand's value (64 bits in the build) and of int (32 bits
\* in the build), and the draws of a key one alloc_raw call makes.
RandWidth == 5
IntWidth == 4
MaxDraws == 2

\* size_t arithmetic wraps; the build's 2^64 is scaled to 2^16.
SizeTModulus == 2^16

NULL == 0

\* The key with which shmget always makes a new segment and finds none
IPC_PRIVATE == 0

VARIABLES
    phase,                 \* "new", "live", "failed" (constructor threw),
                           \* "destroyed", "exited" (exit(-1) in delete_shm)
    freelist,              \* freelist[i]: sequence of Buffers of class i
    shm_list,              \* sequence of shm_region_t
    shm_reserved,          \* stats.shm_reserved
    user_alloc_tot,        \* stats.user_alloc_tot
    prev_allocation_size,
    os_segs,               \* the SHM segments that exist in the OS
    held,                  \* Buffers returned by alloc and not yet freed
    last,                  \* the last call: its arguments, result and work
    teardown_log,          \* calls made by the destructor, in order
    calls                  \* number of calls made so far

vars == <<phase, freelist, shm_list, shm_reserved, user_alloc_tot,
          prev_allocation_size, os_segs, held, last, teardown_log, calls>>

Classes == 0..(kNumClasses - 1)

Max(x, y) == IF x >= y THEN x ELSE y

\* F of the value v, with v evaluated once
Bind(v, F(_)) == CHOOSE y \in {F(x) : x \in {v}} : TRUE

RECURSIVE SumSet(_, _)
\* Sum of F[x] over the finite set S
SumSet(S, F) ==
    IF S = {} THEN 0
    ELSE LET x == CHOOSE y \in S : TRUE IN F[x] + SumSet(S \ {x}, F)

(***************************************************************************)
(* Size classes (huge_alloc.h).                                             *)
(***************************************************************************)
class_max_size(i) == kMinClassSize * (2 ^ i)

\* The largest class whose size is <= size (the smallest class if none).
get_class_round_down(size) ==
    CHOOSE i \in Classes :
        /\ class_max_size(i) <= size \/ i = 0
        /\ \A j \in Classes : class_max_size(j) <= size => j <= i

\* The smallest class whose size is >= size.
get_class(size) ==
    CHOOSE i \in Classes :
        /\ class_max_size(i) >= size
        /\ \A j \in Classes : class_max_size(j) >= size => i <= j

Buffer(buf, class_size, lkey) ==
    [buf |-> buf, class_size |-> class_size, lkey |-> lkey]

NullBuffer == Buffer(NULL, 0, 0)

shm_region_t(shm_key, buf, size, reg_info) ==
    [shm_key |-> shm_key, buf |-> buf, size |-> size, mem_reg_info |-> reg_info]

(***************************************************************************)
(* The environment.                                                         *)
(***************************************************************************)
\* "EFATAL": shmget fails with EACCES, EINVAL or an errno the switch does not
\* name; alloc_raw throws in each of these cases.
FatalErrnos == {"EFATAL"}
\* Failures after the segment exists: "BIND_FAIL" is the rt_assert after
\* shmat or after mbind, "REG_THROW" is the registration callback throwing.
LateFailures == {"BIND_FAIL", "REG_THROW"}

\* One outcome per way a pass through alloc_raw's loop can go: "EEXIST" is a
\* key that some segment of the machine already has.
OsOutcomes == FatalErrnos \cup {"ENOMEM", "EEXIST"} \cup LateFailures \cup {"OK"}

SegKeys(segs) == {s.key : s \in segs}
\* The key of the next segment: slow_rand's draw, once it collides with no
\* segment.
FreshKey(segs) == 1 + Cardinality(segs)
\* The lkey the registration callback returns for the next region.
FreshLKey(sl) == 1 + Len(sl)
SegBytes(segs) == SumSet(segs, [s \in segs |-> s.size])
\* shmat attaches a new segment above everything attached so far
NextBase(segs) == 1 + SegBytes(segs)

(***************************************************************************)
(* The allocator's state as one value, so that the methods are operators.   *)
(* env is the unconsumed environment; starved says that the call needed     *)
(* more outcomes than env held; os is how the last pass through alloc_raw's *)
(* loop ended in this call; the n_ fields count the work of this call.      *)
(***************************************************************************)
Alloc0(fl, sl, res, tot, prev, segs, env) ==
    [freelist |-> fl, shm_list |-> sl, shm_reserved |-> res,
     user_alloc_tot |-> tot, prev_allocation_size |-> prev, os_segs |-> segs,
     env |-> env, starved |-> FALSE, os |-> "NONE",
     n_reserve |-> 0, n_split |-> 0, n_alloc |-> 0, n_free |-> 0]

Cur(env) == Alloc0(freelist, shm_list, shm_reserved, user_alloc_tot,
                   prev_allocation_size, os_segs, env)

\* No rounding: the size is taken as it is.
round_up_none(size) == size

round_up(size) == ((size + kHugepageSize - 1) \div kHugepageSize) * kHugepageSize

\* What a call hands back: the state, the returned value, and whether it
\* left by an exception.
Result(a, ret, threw) == [a |-> a, ret |-> ret, threw |-> threw]

\* The region is saved, the bytes are not counted.
save_region_uncounted(a, shm_key, shm_buf, size, reg_info) ==
    [a EXCEPT !.shm_list = Append(@, shm_region_t(shm_key, shm_buf, size, reg_info))]

\* The region is put at the front of shm_list.
save_region_at_front(a, shm_key, shm_buf, size, reg_info) ==
    [a EXCEPT !.shm_list = <<shm_region_t(shm_key, shm_buf, size, reg_info)>> \o @,
              !.shm_reserved = @ + size]

\* Save the SHM region so we can free it later
save_region(a, shm_key, shm_buf, size, reg_info) ==
    [a EXCEPT !.shm_list = Append(@, shm_region_t(shm_key, shm_buf, size, reg_info)),
              !.shm_reserved = @ + size]

\* How the pass through the loop that consumes outcome o ends
Pass(a, o) == [a EXCEPT !.env = Tail(@), !.os = o]

RECURSIVE alloc_raw(_, _)
alloc_raw(a, size0) ==
    LET size == round_up(size0) IN
    IF a.env = <<>> THEN Result([a EXCEPT !.starved = TRUE], NULL, TRUE)
    ELSE
    LET o == Head(a.env)
        shm_key == FreshKey(a.os_segs)
    IN  IF o \in FatalErrnos THEN Result(Pass(a, o), NULL, TRUE)
        ELSE IF o = "ENOMEM" THEN Result(Pass(a, o), NULL, FALSE)
        ELSE IF o = "EEXIST" THEN alloc_raw(Pass(a, o), size0)
        ELSE IF size > OsCapacity - SegBytes(a.os_segs)
             THEN Result(Pass(a, "ENOMEM"), NULL, FALSE)
        ELSE
        LET shm_buf == NextBase(a.os_segs)
            attached == [key |-> shm_key, size |-> size, base |-> shm_buf]
            a1 == [Pass(a, o) EXCEPT !.os_segs = @ \cup {attached}]
        IN  IF o \in LateFailures THEN Result(a1, NULL, TRUE)
            ELSE LET reg_info == [lkey |-> FreshLKey(a1.shm_list)]
                 IN  Result(save_region(a1, shm_key, shm_buf, size, reg_info),
                            shm_buf, FALSE)

\* Every Buffer at the region's base: the offset i * kMaxClassSize is left out.
SeedBuffers_same_base(shm_buf, size, lkey) ==
    [i \in 1..(size \div kMaxClassSize) |-> Buffer(shm_buf, kMaxClassSize, lkey)]

\* The number of Buffers taken from the rounded size, as alloc_raw reserved it.
SeedBuffers_rounded(shm_buf, size, lkey) ==
    [i \in 1..(round_up(size) \div kMaxClassSize) |->
        Buffer(shm_buf + ((i - 1) * kMaxClassSize), kMaxClassSize, lkey)]

\* The Buffers reserve_hugepages adds to the largest class.
SeedBuffers(shm_buf, size, lkey) ==
    [i \in 1..(size \div kMaxClassSize) |->
        Buffer(shm_buf + ((i - 1) * kMaxClassSize), kMaxClassSize, lkey)]

\* The nullptr of alloc_raw is not checked: the Buffers are added all the same.
reserve_hugepages_unchecked(a, size) ==
    Bind(alloc_raw([a EXCEPT !.n_reserve = @ + 1], size), LAMBDA r :
    IF r.threw THEN Result(r.a, FALSE, TRUE)
    ELSE
    LET lkey == IF r.a.shm_list = <<>> THEN 0
                ELSE r.a.shm_list[Len(r.a.shm_list)].mem_reg_info.lkey
    IN  Result([r.a EXCEPT !.freelist[kNumClasses - 1] =
                               @ \o SeedBuffers(r.ret, size, lkey)],
               TRUE, FALSE))

\* The lkey of the first region of shm_list, not of the one just added.
reserve_hugepages_first_lkey(a, size) ==
    Bind(alloc_raw([a EXCEPT !.n_reserve = @ + 1], size), LAMBDA r :
    IF r.threw THEN Result(r.a, FALSE, TRUE)
    ELSE IF r.ret = NULL THEN Result(r.a, FALSE, FALSE)
    ELSE
    LET reg_info == r.a.shm_list[1].mem_reg_info
    IN  Result([r.a EXCEPT !.freelist[kNumClasses - 1] =
                               @ \o SeedBuffers(r.ret, size, reg_info.lkey)],
               TRUE, FALSE))

reserve_hugepages(a, size) ==
    Bind(alloc_raw([a EXCEPT !.n_reserve = @ + 1], size), LAMBDA r :
    IF r.threw THEN Result(r.a, FALSE, TRUE)
    ELSE IF r.ret = NULL THEN Result(r.a, FALSE, FALSE)
    ELSE
    LET reg_info == r.a.shm_list[Len(r.a.shm_list)].mem_reg_info
    IN  Result([r.a EXCEPT !.freelist[kNumClasses - 1] =
                               @ \o SeedBuffers(r.ret, size, reg_info.lkey)],
               TRUE, FALSE))


(***************************************************************************)
(* alloc and free_buf (huge_alloc.h).                                       *)
(***************************************************************************)
\* Classes >= target that have a free Buffer
NonEmptyFrom(fl, target) == {j \in target..(kNumClasses - 1) : fl[j] # <<>>}

Min(S) == CHOOSE x \in S : \A y \in S : x <= y

RECURSIVE split_down_no_push(_, _, _, _)
\* The upper half of each split is dropped, not pushed.
split_down_no_push(fl, cand, j, target) ==
    IF j = target THEN [freelist |-> fl, buffer |-> cand]
    ELSE split_down_no_push(fl, Buffer(cand.buf, class_max_size(j - 1), cand.lkey),
                            j - 1, target)

RECURSIVE split_down(_, _, _, _)
\* Halve the candidate from class j down to class target; the upper half of
\* each split goes to the free-list of the class below.
split_down(fl, cand, j, target) ==
    IF j = target THEN [freelist |-> fl, buffer |-> cand]
    ELSE LET half == class_max_size(j - 1)
             lower == Buffer(cand.buf, half, cand.lkey)
             upper == Buffer(cand.buf + half, half, cand.lkey)
         IN  split_down([fl EXCEPT ![j - 1] = Append(@, upper)], lower, j - 1, target)

\* Pop the last Buffer of the smallest non-empty class >= target and split it
\* down to target.
alloc_from(a, target) ==
    LET j == Min(NonEmptyFrom(a.freelist, target))
        popped == a.freelist[j][Len(a.freelist[j])]
        rest == [a.freelist EXCEPT ![j] = SubSeq(@, 1, Len(@) - 1)]
        s == split_down(rest, popped, j, target)
    IN  Result([a EXCEPT !.freelist = s.freelist,
                         !.user_alloc_tot = @ + class_max_size(target),
                         !.n_split = @ + (j - target),
                         !.n_alloc = @ + 1],
               s.buffer, FALSE)

alloc(a, size) ==
    IF size = 0 \/ size > kMaxClassSize THEN Result(a, NullBuffer, FALSE)
    ELSE
    LET target == get_class(size) IN
    IF NonEmptyFrom(a.freelist, target) # {} THEN alloc_from(a, target)
    ELSE
    LET new_size == Max(a.prev_allocation_size * 2, size) IN
    Bind(reserve_hugepages(a, new_size), LAMBDA r :
        IF r.threw THEN Result(r.a, NullBuffer, TRUE)
        ELSE IF ~r.ret THEN Result(r.a, NullBuffer, FALSE)
        ELSE alloc_from([r.a EXCEPT !.prev_allocation_size = new_size], target))

free_buf(a, buffer) ==
    LET size_class == get_class(buffer.class_size)
    IN  [a EXCEPT !.freelist[size_class] = Append(@, buffer),
                  !.user_alloc_tot = @ - buffer.class_size,
                  !.n_free = @ + 1]

(***************************************************************************)
(* create_cache                                                             *)
(***************************************************************************)
RECURSIVE alloc_loop(_, _, _, _)
\* The first loop of create_cache: todo more calls of alloc(size), the
\* Buffers so far in free_buffer_vec.  ret is FALSE at the first null Buffer.
alloc_loop(a, size, todo, free_buffer_vec) ==
    IF todo = 0 THEN [a |-> a, ret |-> TRUE, threw |-> FALSE, vec |-> free_buffer_vec]
    ELSE Bind(alloc(a, size), LAMBDA r :
             IF r.threw
             THEN [a |-> r.a, ret |-> FALSE, threw |-> TRUE, vec |-> free_buffer_vec]
             ELSE IF r.ret.buf = NULL
             THEN [a |-> r.a, ret |-> FALSE, threw |-> FALSE, vec |-> free_buffer_vec]
             ELSE alloc_loop(r.a, size, todo - 1, Append(free_buffer_vec, r.ret)))

\* Only the first Buffer of free_buffer_vec is freed.
free_loop_first_only(a, free_buffer_vec) ==
    IF free_buffer_vec = <<>> THEN a ELSE free_buf(a, Head(free_buffer_vec))

RECURSIVE free_loop(_, _)
free_loop(a, free_buffer_vec) ==
    IF free_buffer_vec = <<>> THEN a
    ELSE Bind(free_buf(a, Head(free_buffer_vec)),
              LAMBDA freed : free_loop(freed, Tail(free_buffer_vec)))

\* num_buffers - freelist[size_class].size() in size_t
reqd_buffers_of(num_buffers, have) ==
    (num_buffers + SizeTModulus - have) % SizeTModulus

create_cache(a, size, num_buffers) ==
    LET size_class == get_class(size)
        reqd_buffers == reqd_buffers_of(num_buffers, Len(a.freelist[size_class]))
    IN  IF reqd_buffers <= 0 THEN Result(a, TRUE, FALSE)
        ELSE Bind(alloc_loop(a, size, reqd_buffers, <<>>), LAMBDA l :
                 IF l.threw \/ ~l.ret THEN Result(l.a, FALSE, l.threw)
                 ELSE Result(free_loop(l.a, l.vec), TRUE, FALSE))

(***************************************************************************)
(* The constructor                                                          *)
(***************************************************************************)
\* initial_size is not raised to kMaxClassSize.
HugeAlloc_unclamped(a, initial_size0) ==
    Bind(reserve_hugepages([a EXCEPT !.prev_allocation_size = initial_size0],
                           initial_size0),
         LAMBDA r : Result(r.a, TRUE, r.threw))

HugeAlloc(a, initial_size0) ==
    LET initial_size == IF initial_size0 < kMaxClassSize THEN kMaxClassSize
                        ELSE initial_size0
    IN  \* the bool reserve_hugepages returns is dropped
        Bind(reserve_hugepages([a EXCEPT !.prev_allocation_size = initial_size],
                               initial_size),
             LAMBDA r : Result(r.a, TRUE, r.threw))

(***************************************************************************)
(* The destructor and delete_shm                                            *)
(***************************************************************************)
TeardownFaults == {"NONE", "SHMGET", "SHMCTL", "SHMDT"}

\* delete_shm on the segments segs; fault is the call of it that fails.
delete_shm(segs, shm_key, shm_buf, fault) ==
    LET found == {s \in segs : s.key = shm_key /\ shm_key # IPC_PRIVATE} IN
    IF fault = "SHMGET" \/ found = {}
    THEN [segs |-> segs, log |-> <<<<"shmget", shm_key>>>>, exited |-> TRUE]
    ELSE IF fault = "SHMCTL"
    THEN [segs |-> segs, log |-> <<<<"shmget", shm_key>>, <<"shmctl", shm_key>>>>,
          exited |-> TRUE]
    ELSE \* marked for removal: gone once detached, by shmdt or by exit
         [segs |-> segs \ found,
          log |-> <<<<"shmget", shm_key>>, <<"shmctl", shm_key>>, <<"shmdt", shm_buf>>>>,
          exited |-> (fault = "SHMDT")]

RECURSIVE destroy_loop_dereg_after(_, _, _, _, _)
\* delete_shm of a region before its dereg_mr_func.
destroy_loop_dereg_after(sl, i, segs, fail_at, fault) ==
    IF i > Len(sl) THEN [segs |-> segs, log |-> <<>>, exited |-> FALSE]
    ELSE LET d == delete_shm(segs, sl[i].shm_key, sl[i].buf,
                             IF i = fail_at THEN fault ELSE "NONE")
             here == d.log \o <<<<"dereg", sl[i].mem_reg_info>>>>
         IN  IF d.exited THEN [segs |-> d.segs, log |-> d.log, exited |-> TRUE]
             ELSE LET rest == destroy_loop_dereg_after(sl, i + 1, d.segs, fail_at, fault)
                  IN  [segs |-> rest.segs, log |-> here \o rest.log,
                       exited |-> rest.exited]

RECURSIVE destroy_loop(_, _, _, _, _)
\* The destructor's loop from region i on; delete_shm of region fail_at
\* fails with fault.
destroy_loop(sl, i, segs, fail_at, fault) ==
    IF i > Len(sl) THEN [segs |-> segs, log |-> <<>>, exited |-> FALSE]
    ELSE LET d == delete_shm(segs, sl[i].shm_key, sl[i].buf,
                             IF i = fail_at THEN fault ELSE "NONE")
             here == <<<<"dereg", sl[i].mem_reg_info>>>> \o d.log
         IN  IF d.exited THEN [segs |-> d.segs, log |-> here, exited |-> TRUE]
             ELSE LET rest == destroy_loop(sl, i + 1, d.segs, fail_at, fault)
                  IN  [segs |-> rest.segs, log |-> here \o rest.log,
                       exited |-> rest.exited]

(***************************************************************************)
(* Calls, and the environments a call can meet.                             *)
(***************************************************************************)
Call(op, size, n) == [op |-> op, size |-> size, n |-> n]

Apply(a, call) ==
    IF call.op = "construct" THEN HugeAlloc(a, call.size)
    ELSE IF call.op = "alloc" THEN alloc(a, call.size)
    ELSE create_cache(a, call.size, call.n)

RECURSIVE Runs(_, _)
\* The results of call in the current state, one for each sequence of
\* outcomes the call consumes in full.
Runs(call, env) ==
    Bind(Apply(Cur(env), call), LAMBDA r :
        IF ~r.a.starved THEN {[r |-> r, env |-> env]}
        ELSE IF Len(env) >= MaxEnv THEN {}
        ELSE UNION {Runs(call, Append(env, o)) : o \in OsOutcomes})

Last(call, run) ==
    [op |-> call.op, size |-> call.size, n |-> call.n,
     ret |-> run.r.ret, threw |-> run.r.threw, os |-> run.r.a.os,
     n_reserve |-> run.r.a.n_reserve, n_split |-> run.r.a.n_split,
     n_alloc |-> run.r.a.n_alloc, n_free |-> run.r.a.n_free]

NoLast == [op |-> "none", size |-> 0, n |-> 0, ret |-> TRUE, threw |-> FALSE,
           os |-> "NONE", n_reserve |-> 0, n_split |-> 0, n_alloc |-> 0,
           n_free |-> 0]

\* The allocator's fields after a call
Install(a) ==
    /\ freelist' = a.freelist
    /\ shm_list' = a.shm_list
    /\ shm_reserved' = a.shm_reserved
    /\ user_alloc_tot' = a.user_alloc_tot
    /\ prev_allocation_size' = a.prev_allocation_size
    /\ os_segs' = a.os_segs

\* Sizes the calls are made with: one below the largest class, all from it
\* to the bound and one below two largest classes at construction; an exact and an inexact size of the
\* classes, zero and one too large for alloc; one size per class for
\* create_cache.
InitialSizes == ((kMaxClassSize - 1)..MaxInitialSize) \cup {2 * kMaxClassSize - 1}
AllocSizes == {0, kMinClassSize, kMinClassSize + 1, kMaxClassSize - 3,
               kMaxClassSize, kMaxClassSize + 1}
CacheSizes == {class_max_size(i) : i \in Classes}
CacheCounts == 1..MaxCacheBuffers

Init ==
    /\ phase = "new"
    /\ freelist = [i \in Classes |-> <<>>]
    /\ shm_list = <<>>
    /\ shm_reserved = 0
    /\ user_alloc_tot = 0
    /\ prev_allocation_size = 0
    /\ os_segs = {}
    /\ held = {}
    /\ last = NoLast
    /\ teardown_log = <<>>
    /\ calls = 0

Construct ==
    /\ phase = "new"
    /\ calls' = calls + 1
    /\ \E initial_size \in InitialSizes :
         LET call == Call("construct", initial_size, 0) IN
         \E run \in Runs(call, <<>>) :
            /\ Install(run.r.a)
            /\ phase' = IF run.r.threw THEN "failed" ELSE "live"
            /\ last' = Last(call, run)
    /\ UNCHANGED <<held, teardown_log>>

Alloc ==
    /\ phase = "live"
    /\ calls < MaxCalls
    /\ calls' = calls + 1
    /\ Cardinality(held) < MaxHeld
    /\ \E size \in AllocSizes :
         LET call == Call("alloc", size, 0) IN
         \E run \in Runs(call, <<>>) :
            /\ Install(run.r.a)
            /\ held' = IF run.r.ret.buf # NULL THEN held \cup {run.r.ret} ELSE held
            /\ last' = Last(call, run)
    /\ UNCHANGED <<phase, teardown_log>>

Free ==
    /\ phase = "live"
    /\ calls < MaxCalls
    /\ calls' = calls + 1
    /\ \E buffer \in held :
         LET a == free_buf(Cur(<<>>), buffer) IN
            /\ Install(a)
            /\ held' = held \ {buffer}
            /\ last' = [NoLast EXCEPT !.op = "free", !.size = buffer.class_size,
                                      !.n_free = 1]
    /\ UNCHANGED <<phase, teardown_log>>

CreateCache ==
    /\ phase = "live"
    /\ calls < MaxCalls
    /\ calls' = calls + 1
    /\ \E size \in CacheSizes, num_buffers \in CacheCounts :
         LET call == Call("create_cache", size, num_buffers) IN
         \E run \in Runs(call, <<>>) :
            /\ Install(run.r.a)
            /\ last' = Last(call, run)
    /\ UNCHANGED <<phase, held, teardown_log>>

Destroy ==
    /\ phase = "live"
    /\ calls < MaxCalls
    /\ calls' = calls + 1
    /\ \E fail_at \in 0..Len(shm_list), fault \in TeardownFaults :
         /\ (fail_at = 0) = (fault = "NONE")
         /\ LET d == destroy_loop(shm_list, 1, os_segs, fail_at, fault) IN
            /\ os_segs' = d.segs
            /\ teardown_log' = d.log
            /\ phase' = IF d.exited THEN "exited" ELSE "destroyed"
    /\ last' = [NoLast EXCEPT !.op = "destroy"]
    /\ UNCHANGED <<freelist, shm_list, shm_reserved, user_alloc_tot,
                   prev_allocation_size, held>>

Next == Construct \/ Alloc \/ Free \/ CreateCache \/ Destroy

Spec == Init /\ [][Next]_vars


(***************************************************************************)
(* alloc with every size from 0 to one more than kMaxClassSize.             *)
(***************************************************************************)
AllSizes == 0..(kMaxClassSize + 1)

AllocAnySize ==
    /\ phase = "live"
    /\ calls < MaxCalls
    /\ calls' = calls + 1
    /\ Cardinality(held) < MaxHeld
    /\ \E size \in AllSizes :
         LET call == Call("alloc", size, 0) IN
         \E run \in Runs(call, <<>>) :
            /\ Install(run.r.a)
            /\ held' = IF run.r.ret.buf # NULL THEN held \cup {run.r.ret} ELSE held
            /\ last' = Last(call, run)
    /\ UNCHANGED <<phase, teardown_log>>

NextSizes == Construct \/ AllocAnySize \/ Free

SizesSpec == Init /\ [][NextSizes]_vars

(***************************************************************************)
(* The key of a segment as alloc_raw draws it.                              *)
(***************************************************************************)
RandValues == 0..((2 ^ RandWidth) - 1)
IntMin == 0 - (2 ^ (IntWidth - 1))
IntMax == (2 ^ (IntWidth - 1)) - 1

\* static_cast<int>: the low IntWidth bits, in two's complement
static_cast_int(u) ==
    LET low == u % (2 ^ IntWidth)
    IN  IF low > IntMax THEN low - (2 ^ IntWidth) ELSE low

\* The values std::abs can return: that of the most negative int is not
\* defined, so it is any int.
std_abs(x) ==
    IF x = IntMin THEN IntMin..IntMax
    ELSE IF x < 0 THEN {0 - x} ELSE {x}

\* The keys alloc_raw can ask shmget for when slow_rand returns rand
shm_key_of(rand) == std_abs(static_cast_int(rand))

DrawnKeys == UNION {shm_key_of(rand) : rand \in RandValues}

RECURSIVE alloc_raw_keyed(_, _, _)
\* alloc_raw with the key drawn from slow_rand, every call after shmget
\* succeeding: the results of at most draws passes through the loop.
alloc_raw_keyed(a, size0, draws) ==
    LET size == round_up(size0) IN
    IF draws = 0 THEN {}
    ELSE UNION {
        IF shm_key # IPC_PRIVATE /\ shm_key \in SegKeys(a.os_segs)
        THEN alloc_raw_keyed([a EXCEPT !.os = "EEXIST"], size0, draws - 1)
        ELSE IF size > OsCapacity - SegBytes(a.os_segs)
        THEN {Result([a EXCEPT !.os = "ENOMEM"], NULL, FALSE)}
        ELSE
        LET shm_buf == NextBase(a.os_segs)
            attached == [key |-> shm_key, size |-> size, base |-> shm_buf]
            a1 == [a EXCEPT !.os_segs = @ \cup {attached}, !.os = "OK"]
            reg_info == [lkey |-> FreshLKey(a1.shm_list)]
        IN  {Result(save_region(a1, shm_key, shm_buf, size, reg_info), shm_buf, FALSE)}
        : shm_key \in DrawnKeys}

reserve_hugepages_keyed(a, size) ==
    {IF r.ret = NULL THEN Result(r.a, FALSE, FALSE)
     ELSE LET reg_info == r.a.shm_list[Len(r.a.shm_list)].mem_reg_info
          IN  Result([r.a EXCEPT !.freelist[kNumClasses - 1] =
                                     @ \o SeedBuffers(r.ret, size, reg_info.lkey)],
                     TRUE, FALSE)
     : r \in alloc_raw_keyed([a EXCEPT !.n_reserve = @ + 1], size, MaxDraws)}

alloc_keyed(a, size) ==
    LET target == get_class(size) IN
    IF NonEmptyFrom(a.freelist, target) # {} THEN {alloc_from(a, target)}
    ELSE
    LET new_size == Max(a.prev_allocation_size * 2, size) IN
    {IF ~r.ret THEN Result(r.a, NullBuffer, FALSE)
     ELSE alloc_from([r.a EXCEPT !.prev_allocation_size = new_size], target)
     : r \in reserve_hugepages_keyed(a, new_size)}

ConstructKeyed ==
    /\ phase = "new"
    /\ calls' = calls + 1
    /\ LET call == Call("construct", kMaxClassSize, 0)
           a == [Cur(<<>>) EXCEPT !.prev_allocation_size = kMaxClassSize]
       IN  \E r \in reserve_hugepages_keyed(a, kMaxClassSize) :
              /\ Install(r.a)
              /\ last' = Last(call, [r |-> Result(r.a, TRUE, FALSE)])
    /\ phase' = "live"
    /\ UNCHANGED <<held, teardown_log>>

AllocKeyed ==
    /\ phase = "live"
    /\ calls < MaxCalls
    /\ calls' = calls + 1
    /\ Cardinality(held) < MaxHeld
    /\ LET call == Call("alloc", kMaxClassSize, 0) IN
       \E r \in alloc_keyed(Cur(<<>>), kMaxClassSize) :
          /\ Install(r.a)
          /\ held' = IF r.ret.buf # NULL THEN held \cup {r.ret} ELSE held
          /\ last' = Last(call, [r |-> r])
    /\ UNCHANGED <<phase, teardown_log>>

NextKeys == ConstructKeyed \/ AllocKeyed \/ Destroy

KeySpec == Init /\ [][NextKeys]_vars

(***************************************************************************)
(* create_cache asked for one Buffer more than MaxCacheBuffers as well.     *)
(***************************************************************************)
WideCacheCounts == 1..(MaxCacheBuffers + 1)

CreateCacheWide ==
    /\ phase = "live"
    /\ calls < MaxCalls
    /\ calls' = calls + 1
    /\ \E size \in CacheSizes, num_buffers \in WideCacheCounts :
         LET call == Call("create_cache", size, num_buffers) IN
         \E run \in Runs(call, <<>>) :
            /\ Install(run.r.a)
            /\ last' = Last(call, run)
    /\ UNCHANGED <<phase, held, teardown_log>>

NextCache == Construct \/ Alloc \/ CreateCacheWide

CacheSpec == Init /\ [][NextCache]_vars

(***************************************************************************)
(* Properties                                                               *)
(***************************************************************************)
LargestClass == kNumClasses - 1
Constructed == phase = "live"
RECURSIVE FreeFrom(_)
\* The free-lists of the classes from i on, one after the other
FreeFrom(i) == IF i > LargestClass THEN <<>> ELSE freelist[i] \o FreeFrom(i + 1)
FreeSeq == FreeFrom(0)
Handle(b) == <<b.buf, b.class_size>>
HeldBytes == SumSet(held, [b \in held |-> b.class_size])
CacheReturnedTrue == last.op = "create_cache" /\ ~last.threw /\ last.ret = TRUE

\* C1: no constructed allocator exists with an empty region list and all
\* free-lists empty: a constructor whose initial reservation does not
\* succeed does not complete normally.
C1_ConstructedHasRegion ==
    Constructed => ~(shm_list = <<>> /\ \A i \in Classes : freelist[i] = <<>>)

\* C2: a create_cache(s, n) that immediately follows a create_cache(s, n)
\* that returned true returns true too, does no allocation, free, split or
\* reservation, and leaves at least n Buffers in the free-list of s's class.
C2_CreateCacheIdempotent ==
    [][(/\ CacheReturnedTrue
        /\ last'.op = "create_cache"
        /\ last'.size = last.size
        /\ last'.n = last.n)
       => (/\ ~last'.threw
           /\ last'.ret = TRUE
           /\ last'.n_alloc = 0 /\ last'.n_free = 0
           /\ last'.n_split = 0 /\ last'.n_reserve = 0
           /\ Len(freelist'[get_class(last'.size)]) >= last'.n)]_vars

\* C3: when the registration callback throws in a reservation, the segment
\* just created is removed before the exception leaves, so every segment
\* that exists has its record in the region list.
C3_RegFailureLeaksNoSegment ==
    last.os = "REG_THROW"
        => \A s \in os_segs : \E i \in 1..Len(shm_list) : shm_list[i].shm_key = s.key

\* C4: when shmget reports ENOMEM for the growth reservation of an alloc
\* miss, alloc returns a null Buffer and shm_reserved, the region list, the
\* free-lists and user_alloc_tot keep their values.
C4_EnomemGrowthChangesNothing ==
    [][(last'.op = "alloc" /\ last'.os = "ENOMEM")
       => (/\ last'.ret = NullBuffer
           /\ ~last'.threw
           /\ UNCHANGED <<shm_reserved, shm_list, freelist, user_alloc_tot>>)]_vars

C4_Witness ==
    /\ last.op = "alloc" /\ last.os = "ENOMEM" /\ last.n_reserve = 1
    /\ shm_list # <<>> /\ held # {}

ConstructReserved == last'.op = "construct" /\ Len(shm_list') = 1
\* The step is an alloc of the largest class that missed and grew.
LargestGrew ==
    /\ last'.op = "alloc" /\ last'.size = kMaxClassSize
    /\ Len(shm_list') = Len(shm_list) + 1
NewRegion == shm_list'[Len(shm_list')]
\* count Buffers of the largest class at consecutive offsets from the base
\* of region r, with r's lkey
Consecutive(r, count) ==
    [i \in 1..count |->
        Buffer(r.buf + ((i - 1) * kMaxClassSize), kMaxClassSize, r.mem_reg_info.lkey)]
\* The step adds exactly seeds to the largest class (an alloc of the largest
\* class then pops the last of them) and changes no other free-list.
SeededWith(seeds) ==
    /\ ConstructReserved => freelist'[LargestClass] = freelist[LargestClass] \o seeds
    /\ LargestGrew =>
          freelist'[LargestClass] \o <<last'.ret>> = freelist[LargestClass] \o seeds
    /\ \A i \in Classes \ {LargestClass} : freelist'[i] = freelist[i]
\* The state after a reserving constructor called with kMaxClassSize
FreshOfMaxClass ==
    (ConstructReserved /\ last'.size = kMaxClassSize) =>
        /\ Len(freelist'[LargestClass]) = 1
        /\ \A i \in Classes \ {LargestClass} : freelist'[i] = <<>>
        /\ shm_reserved' = kMaxClassSize
        /\ user_alloc_tot' = 0

\* C6 as claimed: a successful reservation seeds the largest class with
\* region size / kMaxClassSize Buffers at consecutive offsets that cover the
\* whole region: the seeded bytes are the bytes added to shm_reserved.
C6_SeedsCoverRegion ==
    [][(ConstructReserved \/ LargestGrew) =>
        LET count == NewRegion.size \div kMaxClassSize IN
        /\ SeededWith(Consecutive(NewRegion, count))
        /\ count * kMaxClassSize = shm_reserved' - shm_reserved
        /\ FreshOfMaxClass]_vars

\* The size reserve_hugepages was called with in this step
RequestedSize ==
    IF last'.op = "construct" THEN Max(last'.size, kMaxClassSize)
    ELSE prev_allocation_size'

\* C6 amended: a successful reservation seeds the largest class with
\* floor(requested size / kMaxClassSize) Buffers at consecutive offsets from
\* the region's base; they lie in the region and the seeded bytes are at
\* most the bytes added to shm_reserved (the rest of the region is left
\* unused); no other free-list changes.
C6_SeedsFromRequestedSize ==
    [][(ConstructReserved \/ LargestGrew) =>
        LET count == RequestedSize \div kMaxClassSize IN
        /\ SeededWith(Consecutive(NewRegion, count))
        /\ count >= 1
        /\ count * kMaxClassSize <= shm_reserved' - shm_reserved
        /\ shm_reserved' - shm_reserved = NewRegion.size
        /\ FreshOfMaxClass]_vars

C6_Witness ==
    /\ last.op = "construct" /\ Len(shm_list) = 1
    /\ shm_list[1].size = 2 * kMaxClassSize
    /\ Len(freelist[LargestClass]) = 1

\* C7: when create_cache(s, n) has returned true, the free-list of s's
\* class holds at least n Buffers.
C7_CacheHoldsRequested ==
    CacheReturnedTrue => Len(freelist[get_class(last.size)]) >= last.n

\* C8: user_alloc_tot is the sum of the class sizes of the Buffers callers
\* hold.
C8_UserAllocTotIsHeldBytes ==
    Constructed => user_alloc_tot = HeldBytes

\* C9: user_alloc_tot <= shm_reserved in every state.
C9_UserAllocWithinReserved == user_alloc_tot <= shm_reserved

C9_Witness ==
    /\ Constructed /\ held # {}
    /\ user_alloc_tot = shm_reserved

\* C10: a handle (address, class) is in the free-lists at most once, and no
\* handle a caller holds is in a free-list.
C10_HandlesDisjoint ==
    /\ \A i, j \in 1..Len(FreeSeq) : i # j => Handle(FreeSeq[i]) # Handle(FreeSeq[j])
    /\ \A b \in held : \A i \in 1..Len(FreeSeq) : Handle(b) # Handle(FreeSeq[i])

C10_Witness ==
    /\ Cardinality(held) = 2 /\ Len(shm_list) = 2
    /\ \A i \in Classes : freelist[i] # <<>>

\* The regions of shm_list that contain address addr
RegionsOf(addr) ==
    {i \in 1..Len(shm_list) :
        shm_list[i].buf <= addr /\ addr < shm_list[i].buf + shm_list[i].size}
\* The Buffers in the free-lists and the Buffers callers hold
AllBuffers == {FreeSeq[i] : i \in 1..Len(FreeSeq)} \cup held

\* C11: every Buffer alloc has returned and every Buffer in a free-list lies
\* in exactly one region and carries the lkey the registration callback
\* returned for that region, after any number of growths and splits.
C11_LkeyOfEnclosingRegion ==
    \A b \in AllBuffers :
        /\ Cardinality(RegionsOf(b.buf)) = 1
        /\ \A i \in RegionsOf(b.buf) : b.lkey = shm_list[i].mem_reg_info.lkey

C11_Witness ==
    /\ Len(shm_list) = 2
    /\ shm_list[1].mem_reg_info.lkey # shm_list[2].mem_reg_info.lkey
    /\ \E b1, b2 \in held : b1.lkey # b2.lkey
    /\ \E i \in 1..Len(FreeSeq) :
          /\ FreeSeq[i].class_size < kMaxClassSize
          /\ RegionsOf(FreeSeq[i].buf) = {2}

\* The positions of teardown_log at which region i is deregistered, and
\* those at which its segment is looked up, marked for removal or detached
DeregAt(i) ==
    {k \in 1..Len(teardown_log) :
        teardown_log[k][1] = "dereg" /\ teardown_log[k][2] = shm_list[i].mem_reg_info}
RemovalAt(i) ==
    {k \in 1..Len(teardown_log) :
        \/ teardown_log[k][1] \in {"shmget", "shmctl"}
              /\ teardown_log[k][2] = shm_list[i].shm_key
        \/ teardown_log[k][1] = "shmdt" /\ teardown_log[k][2] = shm_list[i].buf}
IsDereg(e) == e[1] = "dereg"
\* The dereg_mr_func calls of the teardown, in the order made
Deregs == SelectSeq(teardown_log, IsDereg)
TornDown == phase \in {"destroyed", "exited"}
\* Regions 1..n were deregistered in insertion order, once each, each
\* before its own segment was touched and after the segment of the region
\* before it.
DeregisteredInOrder(n) ==
    /\ Len(Deregs) = n
    /\ \A i \in 1..n :
          /\ Deregs[i] = <<"dereg", shm_list[i].mem_reg_info>>
          /\ Cardinality(DeregAt(i)) = 1
          /\ \A d \in DeregAt(i), k \in RemovalAt(i) : d < k
          /\ i < n => \A k \in RemovalAt(i), d \in DeregAt(i + 1) : k < d

\* C12 as claimed: no region is deregistered before teardown; at teardown
\* every region of the region list is deregistered exactly once, in
\* insertion order, before its segment is marked for removal and detached.
C12_EveryRegionDeregistered ==
    /\ ~TornDown => teardown_log = <<>>
    /\ TornDown => DeregisteredInOrder(Len(shm_list))

\* C12 amended: no region is deregistered before teardown; a teardown
\* deregisters the regions in insertion order, once each and each before
\* its segment is marked for removal and detached, up to and including the
\* first region whose removal fails; that failure ends the process and the
\* regions after it are never deregistered.  A teardown without failure
\* deregisters, marks and detaches every region.
C12_DeregisteredUntilFatal ==
    /\ ~TornDown => teardown_log = <<>>
    /\ TornDown =>
          /\ Len(Deregs) <= Len(shm_list)
          /\ DeregisteredInOrder(Len(Deregs))
    /\ phase = "exited" => Len(Deregs) >= 1
    /\ phase = "destroyed" =>
          /\ Len(Deregs) = Len(shm_list)
          /\ \A i \in 1..Len(shm_list) :
                /\ Cardinality(RemovalAt(i)) = 3
                /\ \A s \in os_segs : s.key # shm_list[i].shm_key

C12_Witness ==
    /\ phase = "destroyed" /\ Len(shm_list) = 2
    /\ Len(Deregs) = 2 /\ Len(teardown_log) = 8

\* The step is an alloc of a size alloc serves
AllocStep == last'.op = "alloc" /\ last'.size \in 1..kMaxClassSize
\* The step is an alloc that finds no free Buffer in its class or a larger one
AllocMiss == AllocStep /\ NonEmptyFrom(freelist, get_class(last'.size)) = {}
\* The size the growth policy asks for in this step
GrowthSize == Max(2 * prev_allocation_size, last'.size)
Grew == Len(shm_list') = Len(shm_list) + 1

\* C13: an alloc that misses makes exactly one reservation attempt, of
\* max(2 * prev_allocation_size, size) bytes (reserved in whole hugepages);
\* when it succeeds alloc returns a Buffer and the size becomes the new
\* prev_allocation_size.  An alloc that hits reserves nothing.
\* prev_allocation_size is max(initial_size, kMaxClassSize) after the
\* constructor and is changed by no free and no teardown: after an initial
\* size of kMaxClassSize the first growth reserves 2 * kMaxClassSize.
C13_GrowthDoublesPrevious ==
    [][/\ AllocMiss =>
            /\ last'.n_reserve = 1
            /\ Len(shm_list') \in {Len(shm_list), Len(shm_list) + 1}
            /\ Grew =>
                  /\ NewRegion.size = round_up(GrowthSize)
                  /\ prev_allocation_size' = GrowthSize
                  /\ last'.ret # NullBuffer /\ ~last'.threw
                  /\ last'.ret.class_size = class_max_size(get_class(last'.size))
            /\ (prev_allocation_size = kMaxClassSize /\ Grew) =>
                  NewRegion.size = 2 * kMaxClassSize
       /\ (AllocStep /\ ~AllocMiss) =>
            /\ last'.n_reserve = 0
            /\ UNCHANGED <<shm_list, prev_allocation_size>>
       /\ last'.op = "construct" =>
            prev_allocation_size' = Max(last'.size, kMaxClassSize)
       /\ last'.op \in {"free", "destroy"} => UNCHANGED prev_allocation_size]_vars

C13_Witness ==
    /\ last.op = "alloc" /\ last.n_reserve = 1 /\ last.ret # NullBuffer
    /\ Len(shm_list) = 2
    /\ shm_list[1].size = kMaxClassSize /\ shm_list[2].size = 2 * kMaxClassSize
    /\ prev_allocation_size = 2 * kMaxClassSize

RECURSIVE pow2_at_least(_, _)
\* The smallest p * 2^k that is >= size
pow2_at_least(p, size) == IF p >= size THEN p ELSE pow2_at_least(2 * p, size)
\* i is the smallest class index with kMinClassSize << i >= size
SmallestIndex(i, size) ==
    /\ i \in Classes
    /\ kMinClassSize * (2 ^ i) >= size
    /\ \A j \in 0..(i - 1) : kMinClassSize * (2 ^ j) < size

\* C14: for every size in 1..kMaxClassSize, alloc(size) returns a null
\* Buffer or a Buffer whose class size is the smallest power of two that is
\* >= max(size, kMinClassSize): its class index is the smallest i with
\* kMinClassSize << i >= size.
C14_SmallestFittingClass ==
    [][(last'.op = "alloc" /\ last'.size \in 1..kMaxClassSize) =>
        \/ last'.ret = NullBuffer
        \/ /\ last'.ret.class_size = pow2_at_least(kMinClassSize, last'.size)
           /\ last'.ret.class_size >= Max(last'.size, kMinClassSize)
           /\ \E i \in Classes :
                 /\ last'.ret.class_size = kMinClassSize * (2 ^ i)
                 /\ SmallestIndex(i, last'.size)]_vars

C14_Witness ==
    /\ last.op = "alloc" /\ last.size = kMaxClassSize - 1
    /\ last.ret \in held /\ last.ret.class_size = kMaxClassSize
    /\ \E b \in held : b.class_size = kMinClassSize

RECURSIVE RegionBytes(_)
\* The sum of the byte sizes of the regions of sl
RegionBytes(sl) == IF sl = <<>> THEN 0 ELSE Head(sl).size + RegionBytes(Tail(sl))

\* C15: shm_reserved never decreases and is, before and after every step,
\* the sum of the sizes of the regions in shm_list; a step leaves the
\* regions of shm_list as they are and at most appends to them.
C15_ReservedIsRegionBytes ==
    [][/\ shm_reserved' >= shm_reserved
       /\ shm_reserved = RegionBytes(shm_list)
       /\ shm_reserved' = RegionBytes(shm_list')
       /\ Len(shm_list') >= Len(shm_list)
       /\ SubSeq(shm_list', 1, Len(shm_list)) = shm_list]_vars

C15_Witness ==
    /\ last.op = "create_cache" /\ last.n_reserve = 1
    /\ Len(shm_list) = 2
    /\ shm_reserved = shm_list[1].size + shm_list[2].size
    /\ shm_list[1].size < shm_list[2].size

\* The step is an alloc served from the free-lists as they are
AllocHit == AllocStep /\ ~AllocMiss
TargetClass == get_class(last'.size)
\* The smallest non-empty class >= the target, and its last Buffer
ServingClass == Min(NonEmptyFrom(freelist, TargetClass))
Popped == freelist[ServingClass][Len(freelist[ServingClass])]
Inside(b, parent) ==
    /\ parent.buf <= b.buf
    /\ b.buf + b.class_size <= parent.buf + parent.class_size
\* The upper half of the part of Popped that is split into class i
UpperHalf(i) ==
    Buffer(Popped.buf + class_max_size(i), class_max_size(i), Popped.lkey)
\* The state is the one after a constructor that reserved one Buffer of
\* kMaxClassSize
FreshSingleMax ==
    /\ last.op = "construct"
    /\ Len(freelist[LargestClass]) = 1
    /\ \A i \in Classes \ {LargestClass} : freelist[i] = <<>>
    /\ user_alloc_tot = 0

\* C16: an alloc for target class t served from the smallest non-empty
\* class j >= t pops the last Buffer of class j, appends exactly one Buffer
\* to each class t..j-1 (the upper half of each split, inside the popped
\* Buffer), leaves every other free-list unchanged, returns the lowest part
\* of the popped Buffer and adds class_max_size(t) to user_alloc_tot.  From
\* a fresh allocator with one Buffer of kMaxClassSize, alloc(kMinClassSize
\* + 1) returns class 1, leaves one Buffer in each class 1..kNumClasses - 2,
\* none in class kNumClasses - 1, and user_alloc_tot = 2 * kMinClassSize.
C16_AllocSplitsDown ==
    [][/\ AllocHit =>
            LET t == TargetClass
                j == ServingClass
            IN  /\ last'.ret = Buffer(Popped.buf, class_max_size(t), Popped.lkey)
                /\ last'.n_split = j - t
                /\ Len(freelist'[j]) = Len(freelist[j]) - 1
                /\ freelist'[j] = SubSeq(freelist[j], 1, Len(freelist[j]) - 1)
                /\ \A i \in t..(j - 1) :
                      /\ freelist'[i] = Append(freelist[i], UpperHalf(i))
                      /\ Inside(UpperHalf(i), Popped)
                /\ \A i \in Classes \ (t..j) : freelist'[i] = freelist[i]
                /\ user_alloc_tot' = user_alloc_tot + class_max_size(t)
       /\ (FreshSingleMax /\ AllocStep /\ last'.size = kMinClassSize + 1) =>
            /\ last'.ret.class_size = class_max_size(1)
            /\ \A i \in 1..(kNumClasses - 2) : Len(freelist'[i]) = 1
            /\ freelist'[LargestClass] = <<>>
            /\ freelist'[0] = <<>>
            /\ user_alloc_tot' = 2 * kMinClassSize]_vars

C16_Witness ==
    /\ last.op = "alloc" /\ last.size = kMinClassSize + 1
    /\ last.n_split = LargestClass - 1 /\ last.n_reserve = 0
    /\ shm_reserved = kMaxClassSize
    /\ freelist[LargestClass] = <<>>
    /\ \A i \in 1..(kNumClasses - 2) : Len(freelist[i]) = 1
    /\ user_alloc_tot = 2 * kMinClassSize
    /\ held = {last.ret}

\* C17: free_buf(b) appends b to the free-list of b's own class, takes b's
\* class size from user_alloc_tot and changes no other free-list, not the
\* region list and not shm_reserved: no free-list of a larger class grows,
\* so the two halves of a split that are both free stay in their class.
\* The frees that end a create_cache undo its allocs: user_alloc_tot is as
\* before the call, one Buffer is freed per Buffer allocated, and the freed
\* Buffers are in the free-list of the class of the call's size.
C17_FreeChangesOwnClassOnly ==
    [][/\ last'.op = "free" =>
            \E b \in held :
               LET c == get_class(b.class_size) IN
               /\ held' = held \ {b}
               /\ class_max_size(c) = b.class_size
               /\ freelist'[c] = Append(freelist[c], b)
               /\ \A i \in Classes \ {c} : freelist'[i] = freelist[i]
               /\ \A i \in Classes : i > c => Len(freelist'[i]) = Len(freelist[i])
               /\ user_alloc_tot' = user_alloc_tot - b.class_size
               /\ UNCHANGED <<shm_list, shm_reserved>>
       /\ (last'.op = "create_cache" /\ ~last'.threw /\ last'.ret = TRUE) =>
            /\ last'.n_free = last'.n_alloc
            /\ user_alloc_tot' = user_alloc_tot
            /\ Len(freelist'[get_class(last'.size)]) >= last'.n_free]_vars

C17_Witness ==
    /\ last.op = "free" /\ last.size = 2 * kMinClassSize
    /\ Len(freelist[1]) = 2
    /\ freelist[1][1].buf = freelist[1][2].buf + 2 * kMinClassSize
    /\ freelist[LargestClass] = <<>>
    /\ user_alloc_tot = 0 /\ held = {}
    /\ shm_reserved = kMaxClassSize

\* The keys of the regions of shm_list
StoredKeys == {shm_list[i].shm_key : i \in 1..Len(shm_list)}

\* C18: the key alloc_raw asks shmget for is in 1..IntMax (a positive
\* 31-bit integer in the build) for every value of slow_rand, never 0 and
\* never negative; the key of every segment is the key stored in its
\* region, and the teardown looks the segments up by the stored keys and
\* finds them.
C18_KeyIsPositive ==
    /\ \A k \in StoredKeys : k \in 1..IntMax
    /\ \A s \in os_segs : s.key \in 1..IntMax
    /\ phase = "live" =>
          /\ SegKeys(os_segs) = StoredKeys
          /\ \A i \in 1..Len(shm_list) :
                {s.base : s \in {t \in os_segs : t.key = shm_list[i].shm_key
                                                  /\ t.key # IPC_PRIVATE}}
                   = {shm_list[i].buf}
    /\ TornDown =>
          \A k \in 1..Len(teardown_log) :
              teardown_log[k][1] = "shmget" => teardown_log[k][2] \in StoredKeys

\* The step is a create_cache that returned false at a null Buffer of alloc,
\* asked for at least as many Buffers as its class had free
CacheFailed ==
    /\ last'.op = "create_cache" /\ ~last'.threw /\ last'.ret = FALSE
    /\ last'.n >= Len(freelist[get_class(last'.size)])

\* C19: when create_cache returns false because an alloc of its loop
\* failed, it has freed every Buffer it allocated before in the call:
\* user_alloc_tot is as before the call and as many Buffers were freed as
\* were allocated.
C19_FailedCacheFreesItsBuffers ==
    [][CacheFailed =>
        /\ user_alloc_tot' = user_alloc_tot
        /\ last'.n_free = last'.n_alloc]_vars

=============================================================================
